---- MODULE Spec2Model ----
(***************************************************************************)
(* Model of streamlit_app.py, the ESMA Regulatory Data Explorer.           *)
(*                                                                         *)
(* One run of the script is a walk of pc from "construct" to "done" (or    *)
(* "crashed").  Streamlit re-executes the whole script on every user       *)
(* interaction; Rerun starts the next run from scratch.                    *)
(*                                                                         *)
(* A table (pandas DataFrame) is a record [cols, rows]: cols is the        *)
(* sequence of column names, rows a sequence of functions from the column  *)
(* names to cells.  A cell is a record [k, s, n]: k is the kind of value,  *)
(* s the characters of a string, n the value of a timestamp.               *)
(***************************************************************************)
EXTENDS Integers, Sequences, FiniteSets, TLC

\* ------------------------------------------------------------------ bounds

\* Largest number of rows of a table returned by the data client.
MaxRows == 2
\* Days the date picker offers are 0..MaxDay.
MaxDay == 1
\* Timestamp units in one day (the resolution of publication_date).
UnitsPerDay == 2
\* Largest number of rows of a downloaded file.
MaxDlRows == 1
\* Days in one calendar month.
DaysPerMonth == 1

\* ------------------------------------------------------------------- cells

NaN == [k |-> "nan", s |-> <<>>, n |-> 0]
None == [k |-> "none", s |-> <<>>, n |-> 0]
NaT == [k |-> "nat", s |-> <<>>, n |-> 0]
Str(s) == [k |-> "str", s |-> s, n |-> 0]
Ts(n) == [k |-> "ts", s |-> <<>>, n |-> n]

\* pandas isna()
IsNull(c) == c.k \in {"nan", "none", "nat"}

Range(f) == {f[i] : i \in DOMAIN f}

SeqsUpTo(S, n) == UNION {[1..k -> S] : k \in 0..n}

\* ----------------------------------------------------------------- strings

\* The letters of the model's alphabet, as <<lower, upper>> pairs.
Letters == {<<"a", "A">>, <<"n", "N">>, <<"t", "T">>, <<"o", "O">>, <<"e", "E">>, <<"u", "U">>}

UpperChar(c) == IF \E p \in Letters : p[1] = c THEN (CHOOSE p \in Letters : p[1] = c)[2] ELSE c
LowerChar(c) == IF \E p \in Letters : p[2] = c THEN (CHOOSE p \in Letters : p[2] = c)[1] ELSE c

\* str.upper(), str.lower()
Upper(s) == [i \in 1..Len(s) |-> UpperChar(s[i])]
Lower(s) == [i \in 1..Len(s) |-> LowerChar(s[i])]

\* str.strip(): leading and trailing whitespace removed.
RECURSIVE LStrip(_)
LStrip(s) == IF s # <<>> /\ Head(s) = " " THEN LStrip(Tail(s)) ELSE s
RECURSIVE RStrip(_)
RStrip(s) == IF s # <<>> /\ s[Len(s)] = " " THEN RStrip(SubSeq(s, 1, Len(s) - 1)) ELSE s
Strip(s) == RStrip(LStrip(s))

\* re.search(pat, hay) for a pattern over the model's alphabet, whose only
\* regular-expression metacharacter is ".", matching any one character.
RegexSearch(pat, hay) ==
    \E i \in 0..(Len(hay) - Len(pat)) :
        \A j \in 1..Len(pat) : pat[j] = "." \/ pat[j] = hay[i + j]

\* re.search with re.IGNORECASE
RegexSearchNoCase(pat, hay) == RegexSearch(Lower(pat), Lower(hay))

\* Python's "needle in hay" for strings: what "contains as a substring" means.
IsSubstring(needle, hay) ==
    \E i \in 0..(Len(hay) - Len(needle)) : SubSeq(hay, i + 1, i + Len(needle)) = needle

Digits == <<"0", "1", "2", "3", "4", "5", "6", "7", "8", "9">>
DigitChar(n) == Digits[n + 1]
IsDigit(c) == \E i \in 1..Len(Digits) : Digits[i] = c
DigitVal(c) == (CHOOSE i \in 1..Len(Digits) : Digits[i] = c) - 1

\* A timestamp is written "t<digit>" (standing for an ISO date-time string).
FormatTs(n) == <<"t", DigitChar(n)>>
IsTsString(s) == Len(s) = 2 /\ s[1] = "t" /\ IsDigit(s[2])

\* Series.astype(str), element-wise: a missing value becomes the text of its
\* Python repr ("nan", "None", "NaT"), a string stays, a timestamp is printed.
AsStr(c) ==
    CASE c.k = "nan" -> Str(<<"n", "a", "n">>)
      [] c.k = "none" -> Str(<<"N", "o", "n", "e">>)
      [] c.k = "nat" -> Str(<<"N", "a", "T">>)
      [] c.k = "ts" -> Str(FormatTs(c.n))
      [] OTHER -> c

\* Series.str.contains(pat, case=case, na=na), element-wise (regex=True).
StrContains(c, pat, case, na) ==
    IF IsNull(c) THEN na
    ELSE IF case THEN RegexSearch(pat, c.s) ELSE RegexSearchNoCase(pat, c.s)

\* pd.to_datetime(x, errors="coerce"), element-wise: a timestamp stays, a
\* string that is a date-time is parsed, everything else becomes NaT.
ToDatetime(c) ==
    CASE c.k = "ts" -> c
      [] c.k = "str" /\ IsTsString(c.s) -> Ts(DigitVal(c.s[2]))
      [] OTHER -> NaT

\* ------------------------------------------------------------------ tables

EmptyFrame == [cols |-> <<>>, rows |-> <<>>]

\* DataFrame.empty: some axis has length 0.
IsEmpty(t) == Len(t.rows) = 0 \/ Len(t.cols) = 0

\* "c in df.columns"
HasCol(t, c) == \E i \in 1..Len(t.cols) : t.cols[i] = c

\* The indices of s whose element satisfies the mask, in increasing order.
RECURSIVE KeepIdx(_, _, _)
KeepIdx(rows, mask, i) ==
    IF i > Len(rows) THEN <<>>
    ELSE (IF mask[i] THEN <<i>> ELSE <<>>) \o KeepIdx(rows, mask, i + 1)

\* df[mask] for a boolean Series mask: a new frame with the rows whose mask is
\* True, in their original order.
BoolIndex(t, mask) ==
    LET idx == KeepIdx(t.rows, mask, 1)
    IN [cols |-> t.cols, rows |-> [i \in 1..Len(idx) |-> t.rows[idx[i]]]]

\* df[c] = values: the column is replaced where it stands, or appended.
SetColumn(t, c, values) ==
    [cols |-> IF HasCol(t, c) THEN t.cols ELSE Append(t.cols, c),
     rows |-> [i \in 1..Len(t.rows) |->
                 [x \in DOMAIN t.rows[i] \cup {c} |->
                     IF x = c THEN values[i] ELSE t.rows[i][x]]]]

\* The cells of column c, in row order.
Column(t, c) == [i \in 1..Len(t.rows) |-> t.rows[i][c]]

safe_datetime_uncoerced(series) ==
    [i \in 1..Len(series) |-> IF series[i].k = "ts" THEN series[i] ELSE NaT]

\* safe_datetime(series): to_datetime(errors="coerce"), then tz_localize(None),
\* which leaves a timezone-naive timestamp as it is.
safe_datetime(series) == [i \in 1..Len(series) |-> ToDatetime(series[i])]

\* A cell as to_csv writes it: a missing value is the empty field.
CsvCell(c) ==
    CASE c.k = "str" -> c.s
      [] c.k = "ts" -> FormatTs(c.n)
      [] OTHER -> <<>>

ToCsvWithIndex(t) ==
    <<<<"">> \o t.cols>> \o
    [i \in 1..Len(t.rows) |->
        <<<<DigitChar(i - 1)>>>> \o [j \in 1..Len(t.cols) |-> CsvCell(t.rows[i][t.cols[j]])]]

\* df.to_csv(index=False): the header line, then one line per row, each line
\* the sequence of its fields in column order.
ToCsv(t) ==
    <<t.cols>> \o
    [i \in 1..Len(t.rows) |-> [j \in 1..Len(t.cols) |-> CsvCell(t.rows[i][t.cols[j]])]]

\* pd.concat([a, b], ignore_index=True): the columns of a, then those of b that
\* a lacks; a cell of a column a frame lacks is NaN.
ConcatCols(a, b) == a.cols \o SelectSeq(b.cols, LAMBDA c : ~HasCol(a, c))
Widen(r, cols) == [c \in Range(cols) |-> IF c \in DOMAIN r THEN r[c] ELSE NaN]
Concat(a, b) ==
    LET cols == ConcatCols(a, b)
    IN [cols |-> cols,
        rows |-> [i \in 1..(Len(a.rows) + Len(b.rows)) |->
                    IF i <= Len(a.rows) THEN Widen(a.rows[i], cols)
                    ELSE Widen(b.rows[i - Len(a.rows)], cols)]]

\* ---------------------------------------------------------- python values

\* row.get(c): the cell, or None when the row has no such column.
Get(row, c) == IF c \in DOMAIN row THEN row[c] ELSE None

\* bool(x): None and the empty string are false; float("nan"), NaT, a
\* non-empty string and a timestamp are true.
Truthy(c) ==
    CASE c.k = "none" -> FALSE
      [] c.k = "str" -> c.s # <<>>
      [] OTHER -> TRUE

\* a or b
PyOr(a, b) == IF Truthy(a) THEN a ELSE b

\* --------------------------------------------------- what the client returns

F1 == Str(<<"f", "1">>)
F2 == Str(<<"f", "2">>)
U1 == Str(<<"u">>)
Bad == Str(<<"a">>)

\* A call of the data client throws, or returns a table.
Throws == [ok |-> FALSE, table |-> EmptyFrame]
Returns(t) == [ok |-> TRUE, table |-> t]

Frames(cols, rowset, n) == {[cols |-> cols, rows |-> r] : r \in SeqsUpTo(rowset, n)}

\* load_mifid_file_list(): file metadata, with the download locator in
\* download_link, in downloadUrl, or the publication date missing.
MifidTables ==
    Frames(<<"file_name", "publication_date", "download_link">>,
           [file_name : {F1, F2},
            publication_date : {Str(FormatTs(0))},
            download_link : {NaN, Str(<<>>), U1}], MaxRows)
    \cup Frames(<<"file_name", "publication_date", "downloadUrl">>,
           [file_name : {F1}, publication_date : {NaN, Str(FormatTs(0))},
            downloadUrl : {U1}], MaxRows)
    \cup Frames(<<"file_name">>, [file_name : {F1}], MaxRows)

\* download_file(url): the content of one file.
DownloadTables ==
    Frames(<<"val">>, [val : {Str(<<"a">>)}], MaxDlRows)
    \cup {[cols |-> <<"other">>, rows |-> <<[other |-> NaN]>>]}

\* load_latest_files(): instrument reference data.
FirdsTables ==
    Frames(<<"isin", "cfi_code", "issuer_name", "maturity_date">>,
           [isin : {NaN, Str(<<"a">>), Str(<<"A">>)},
            cfi_code : {NaN, Str(<<"A">>)},
            issuer_name : {NaN, Str(<<"a">>)},
            maturity_date : {Str(FormatTs(1))}], MaxRows)
    \cup Frames(<<"isin", "publication_date">>,
           [isin : {Str(<<"A">>)}, publication_date : {NaN, Str(FormatTs(1))}], MaxRows)

\* load_ssr_exempted_shares(): short-selling exemptions.
SsrTables ==
    Frames(<<"issuer_name", "publication_date">>,
           [issuer_name : {NaN, Str(<<"A", "a">>), Str(<<"o">>)},
            publication_date : {NaN, Str(FormatTs(0)), Str(FormatTs(UnitsPerDay))}], MaxRows)
    \cup Frames(<<"issuer_name">>, [issuer_name : {Str(<<"a">>)}], MaxRows)
    \cup Frames(<<"publication_date">>, [publication_date : {Bad}], MaxRows)

Outcomes(tables) == {Throws} \cup {Returns(t) : t \in tables}

\* What the user can type into a text box.
TextInputs == {<<>>, <<"a">>, <<" ", "a">>, <<".">>, <<" ">>}
\* What the user can type into the search box of the combined preview.
SearchInputs == {<<>>, <<"a">>, <<".">>}

\* st.date_input hands back calendar days; pd.to_datetime(day) is its midnight.
Days == 0..MaxDay
Midnight(day) == Ts(day * UnitsPerDay)

\* ------------------------------------------------------------------- state

VARIABLES
    pc,             \* the statement the run is at
    dataset,        \* st.sidebar.radio's answer
    loaded,         \* the object the panel's loader call returned, as it is now
    loadedAtReturn, \* the same object as it was when the loader returned it
    files,          \* the panel's table variable (files, df in the SSR panel)
    isLoaded,       \* files is bound to the object the loader returned
    start_date, end_date, filtered, selected_files, rest,
    df, dfAtReturn, \* the last downloaded object now, and as download_file returned it
    combined, isin, cfi, issuer, search, summary, trend,
    messages,       \* st.warning / st.error, in order
    exports,        \* st.download_button, in order
    shown,          \* the tables handed to st.dataframe, in order
    reported,       \* the row counts written by st.subheader, in order
    calls,          \* calls of the data client and pipeline stages, in order
    freshness       \* what the Data Freshness Overview wrote

inputVars == <<start_date, end_date, selected_files, isin, cfi, issuer, search>>
mifidVars == <<filtered, rest, df, dfAtReturn, combined>>
tableVars == <<loaded, loadedAtReturn, files, isLoaded>>
outVars == <<messages, exports, shown, reported>>
vars == <<pc, dataset, tableVars, inputVars, mifidVars, summary, trend, outVars, calls, freshness>>

Warning(text) == [level |-> "warning", text |-> text, about |-> None]
WarningAbout(text, what) == [level |-> "warning", text |-> text, about |-> what]
Error(text) == [level |-> "error", text |-> text, about |-> None]
Export(name, t) == [file |-> name, csv |-> ToCsv(t)]

Fresh ==
    /\ dataset = "none"
    /\ loaded = EmptyFrame /\ loadedAtReturn = EmptyFrame /\ files = EmptyFrame
    /\ isLoaded = FALSE
    /\ start_date = NaT /\ end_date = NaT
    /\ filtered = EmptyFrame /\ selected_files = <<>> /\ rest = <<>>
    /\ df = EmptyFrame /\ dfAtReturn = EmptyFrame /\ combined = EmptyFrame
    /\ isin = <<>> /\ cfi = <<>> /\ issuer = <<>> /\ search = <<>>
    /\ summary = EmptyFrame /\ trend = <<>>
    /\ messages = <<>> /\ exports = <<>> /\ shown = <<>> /\ reported = <<>>
    /\ calls = <<>> /\ freshness = <<>>

Init == pc = "construct" /\ Fresh

\* Line 10: edl = EsmaDataLoader(), outside every try block.
Construct ==
    /\ pc = "construct"
    /\ \E ok \in BOOLEAN : pc' = IF ok THEN "radio" ELSE "crashed"
    /\ UNCHANGED <<dataset, tableVars, inputVars, mifidVars, summary, trend, outVars, calls, freshness>>

\* Line 25: the dataset selector.
SelectDataset ==
    /\ pc = "radio"
    /\ \E d \in {"MiFID", "FIRDS", "SSR"} :
        /\ dataset' = d
        /\ pc' = CASE d = "MiFID" -> "mifid_load" [] d = "FIRDS" -> "firds_load" [] OTHER -> "ssr_load"
    /\ UNCHANGED <<tableVars, inputVars, mifidVars, summary, trend, outVars, calls, freshness>>

Call(op, result) == [op |-> op, result |-> result, file |-> None, url |-> None, rows |-> 0]
Download(result, file, url, n) ==
    [op |-> "download_file", result |-> result, file |-> file, url |-> url, rows |-> n]
Stage(op) == Call(op, "ok")

\* How a loader call ended: it threw, returned an empty table, or returned rows.
ResultOf(o) == IF ~o.ok THEN "threw" ELSE IF IsEmpty(o.table) THEN "empty" ELSE "rows"

LoadMessagesConflated(o, nodata, err) ==
    IF ~o.ok \/ IsEmpty(o.table) THEN <<Warning(nodata)>> ELSE <<>>

\* What a panel shows right after its loader call: "except Exception as e:
\* st.error(...)" for a call that threw, "if files.empty: st.warning(...)" for
\* an empty table, nothing yet for a table with rows.
LoadMessages(o, nodata, err) ==
    IF ~o.ok THEN <<Error(err)>>
    ELSE IF IsEmpty(o.table) THEN <<Warning(nodata)>>
    ELSE <<>>

\* The calls of the data client one panel load makes: lines 31, 84, 118.
LoadCallsRetried(op, o) ==
    IF o.ok THEN <<Call(op, ResultOf(o))>> ELSE <<Call(op, "threw"), Call(op, "threw")>>
LoadCalls(op, o) == <<Call(op, ResultOf(o))>>

\* A panel's loader call, lines 30-34, 83-87, 117-121.
PanelLoad(at, op, tables, nodata, err, next) ==
    /\ pc = at
    /\ \E o \in Outcomes(tables) :
        /\ calls' = calls \o LoadCalls(op, o)
        /\ messages' = messages \o LoadMessages(o, nodata, err)
        /\ IF o.ok
           THEN /\ loaded' = o.table /\ loadedAtReturn' = o.table /\ files' = o.table
                /\ isLoaded' = TRUE
           ELSE UNCHANGED tableVars
        /\ pc' = IF o.ok /\ ~IsEmpty(o.table) THEN next ELSE "fresh_mifid"
    /\ UNCHANGED <<dataset, inputVars, mifidVars, summary, trend, exports, shown, reported, freshness>>

\* The panel's "except Exception as e: st.error(...)": the failing statement
\* changes nothing, the message is shown, and the run goes on after the panel.
Caught(err) ==
    /\ messages' = Append(messages, Error(err))
    /\ pc' = "fresh_mifid"

\* ------------------------------------------------------------------ MiFID

MifidLoad ==
    PanelLoad("mifid_load", "load_mifid_file_list", MifidTables,
              "No MiFID metadata found.", "MiFID error", "mifid_norm")

\* Line 35: files["publication_date"] = safe_datetime(files["publication_date"]),
\* an assignment into the frame the loader returned.
MifidNormalise ==
    /\ pc = "mifid_norm"
    /\ IF HasCol(files, "publication_date")
       THEN /\ files' = SetColumn(files, "publication_date",
                                  safe_datetime(Column(files, "publication_date")))
            /\ loaded' = files'
            /\ pc' = "mifid_dates"
            /\ UNCHANGED messages
       ELSE /\ Caught("MiFID error")
            /\ UNCHANGED <<files, loaded>>
    /\ UNCHANGED <<dataset, loadedAtReturn, isLoaded, inputVars, mifidVars, summary, trend,
                   exports, shown, reported, calls, freshness>>

\* Lines 41-44: the user's date range, start <= end, each bound a midnight.
MifidDateInput ==
    /\ pc = "mifid_dates"
    /\ \E a \in Days, b \in Days :
        /\ a <= b
        /\ start_date' = Midnight(a)
        /\ end_date' = Midnight(b)
    /\ pc' = "mifid_filter"
    /\ UNCHANGED <<dataset, tableVars, selected_files, isin, cfi, issuer, search, mifidVars,
                   summary, trend, outVars, calls, freshness>>

\* Lines 41-42: st.date_input raises, or hands back a single date while the
\* user is still picking the range, and the unpacking raises ValueError.
MifidDateInputFails ==
    /\ pc = "mifid_dates"
    /\ Caught("MiFID error")
    /\ UNCHANGED <<dataset, tableVars, inputVars, mifidVars, summary, trend,
                   exports, shown, reported, calls, freshness>>

\* (publication_date >= start_date) & (publication_date <= end_date),
\* element-wise; a comparison with NaT is False.
InDateRangeStrict(c, start, end) == c.k = "ts" /\ c.n > start.n /\ c.n < end.n
InDateRange(c, start, end) == c.k = "ts" /\ c.n >= start.n /\ c.n <= end.n

\* Lines 46-49.
DateRangeFilter(t, start, end) ==
    BoolIndex(t, [i \in 1..Len(t.rows) |->
                    InDateRange(t.rows[i]["publication_date"], start, end)])

\* Lines 46-52.
MifidFilter ==
    /\ pc = "mifid_filter"
    /\ filtered' = DateRangeFilter(files, start_date, end_date)
    /\ reported' = Append(reported, Len(filtered'.rows))
    /\ shown' = Append(shown, filtered')
    /\ calls' = Append(calls, Stage("filter"))
    /\ pc' = "mifid_select"
    /\ UNCHANGED <<dataset, tableVars, inputVars, rest, df, dfAtReturn, combined,
                   summary, trend, messages, exports, freshness>>

\* The sequences of distinct elements of S.
Orderings(S) ==
    {q \in SeqsUpTo(S, Cardinality(S)) : \A i, j \in 1..Len(q) : i # j => q[i] # q[j]}

\* Lines 54-56: the files the user picked among filtered["file_name"], in the
\* order picked, and whether the button was pressed.
MifidSelect ==
    /\ pc = "mifid_select"
    /\ \E sel \in Orderings(Range(Column(filtered, "file_name"))), button \in BOOLEAN :
        /\ selected_files' = sel
        /\ IF button
           THEN /\ combined' = EmptyFrame /\ rest' = sel /\ pc' = "mifid_loop"
           ELSE /\ UNCHANGED <<combined, rest>> /\ pc' = "fresh_mifid"
    /\ UNCHANGED <<dataset, tableVars, start_date, end_date, isin, cfi, issuer, search,
                   filtered, df, dfAtReturn, summary, trend, outVars, calls, freshness>>

\* Line 58: filtered[filtered["file_name"] == fname].iloc[0]
FirstRowNamed(t, fname) ==
    t.rows[CHOOSE i \in 1..Len(t.rows) :
              /\ t.rows[i]["file_name"] = fname
              /\ \A j \in 1..(i - 1) : t.rows[j]["file_name"] # fname]

\* Line 59: url = row.get("download_link") or row.get("downloadUrl")
UrlOf(row) == PyOr(Get(row, "download_link"), Get(row, "downloadUrl"))

\* Lines 57-62: "if not url": the warning, and on to the next file.
MifidLoopNoUrl ==
    /\ pc = "mifid_loop" /\ rest # <<>>
    /\ ~Truthy(UrlOf(FirstRowNamed(filtered, Head(rest))))
    /\ messages' = Append(messages, WarningAbout("No download URL for", Head(rest)))
    /\ rest' = Tail(rest)
    /\ UNCHANGED <<pc, dataset, tableVars, inputVars, filtered, df, dfAtReturn, combined,
                   summary, trend, exports, shown, reported, calls, freshness>>

\* Line 64: df["source_file"] = fname, an assignment into the downloaded frame.
TagSource(t, fname) == SetColumn(t, "source_file", [i \in 1..Len(t.rows) |-> fname])

\* Lines 63-65: the download, the tag, the concatenation.
MifidLoopDownload ==
    /\ pc = "mifid_loop" /\ rest # <<>>
    /\ Truthy(UrlOf(FirstRowNamed(filtered, Head(rest))))
    /\ \E t \in DownloadTables :
        /\ dfAtReturn' = t
        /\ df' = TagSource(t, Head(rest))
        /\ combined' = Concat(combined, df')
    /\ calls' = Append(calls, Download("returned", Head(rest),
                                        UrlOf(FirstRowNamed(filtered, Head(rest))),
                                        Len(dfAtReturn'.rows)))
    /\ rest' = Tail(rest)
    /\ UNCHANGED <<pc, dataset, tableVars, inputVars, filtered, summary, trend, outVars, freshness>>

\* Line 63: download_file raises; the loop is left through the except clause.
MifidLoopDownloadThrows ==
    /\ pc = "mifid_loop" /\ rest # <<>>
    /\ Truthy(UrlOf(FirstRowNamed(filtered, Head(rest))))
    /\ calls' = Append(calls, Download("threw", Head(rest),
                                        UrlOf(FirstRowNamed(filtered, Head(rest))), 0))
    /\ Caught("MiFID error")
    /\ UNCHANGED <<dataset, tableVars, inputVars, mifidVars, summary, trend,
                   exports, shown, reported, freshness>>

\* Lines 71-73: combined[combined.astype(str).apply(lambda r:
\* r.str.contains(search, case=False, na=False), axis=1)].  The apply gives a
\* boolean frame of the shape of combined, and indexing a frame with a boolean
\* frame is DataFrame.where: every row stays, and each cell that does not match
\* becomes NaN.
SearchCombined(t, pat) ==
    [cols |-> t.cols,
     rows |-> [i \in 1..Len(t.rows) |->
                 [c \in DOMAIN t.rows[i] |->
                     IF StrContains(AsStr(t.rows[i][c]), pat, FALSE, FALSE)
                     THEN t.rows[i][c] ELSE NaN]]]

\* Lines 67-76, for a combined frame with rows.
MifidCombined ==
    /\ pc = "mifid_loop" /\ rest = <<>>
    /\ IF IsEmpty(combined)
       THEN UNCHANGED <<search, combined, shown, exports, calls>>
       ELSE \E typed \in SearchInputs :
               /\ search' = typed
               /\ combined' = IF typed # <<>> THEN SearchCombined(combined, typed) ELSE combined
               /\ shown' = Append(shown, combined')
               /\ exports' = Append(exports, Export("mifid_combined.csv", combined'))
               /\ calls' = (IF typed # <<>> THEN Append(calls, Stage("filter")) ELSE calls)
                           \o <<Stage("export")>>
    /\ pc' = "fresh_mifid"
    /\ UNCHANGED <<dataset, tableVars, start_date, end_date, selected_files, isin, cfi, issuer,
                   filtered, rest, df, dfAtReturn, summary, trend, messages, reported, freshness>>

\* ------------------------------------------------------------------ FIRDS

FirdsLoad ==
    PanelLoad("firds_load", "load_latest_files", FirdsTables,
              "No FIRDS metadata available.", "FIRDS error", "firds_inputs")

\* Lines 90-91: st.text_input(...).strip().upper()
FirdsInputs ==
    /\ pc = "firds_inputs"
    /\ \E a \in TextInputs, b \in TextInputs :
        /\ isin' = Upper(Strip(a))
        /\ cfi' = Upper(Strip(b))
    /\ pc' = "firds_filter"
    /\ UNCHANGED <<dataset, tableVars, start_date, end_date, selected_files, issuer, search,
                   mifidVars, summary, trend, outVars, calls, freshness>>

\* df[df[col].astype(str).str.contains(pat, case=case, na=False)]
SubstrFilter(t, col, pat, case) ==
    BoolIndex(t, [i \in 1..Len(t.rows) |->
                    StrContains(AsStr(t.rows[i][col]), pat, case, FALSE)])

\* Lines 93-94.
FirdsAfterIsin(t, pat) == IF pat # <<>> THEN SubstrFilter(t, "isin", pat, TRUE) ELSE t
\* Lines 95-96.
FirdsAfterCfi(t, pat) == IF pat # <<>> THEN SubstrFilter(t, "cfi_code", pat, TRUE) ELSE t

\* Lines 93-100: the two filters, the count, the grid, the CSV.  A filter on a
\* column the table lacks raises KeyError.
FirdsFilter ==
    /\ pc = "firds_filter"
    /\ IF isin # <<>> /\ ~HasCol(files, "isin")
       THEN /\ Caught("FIRDS error")
            /\ UNCHANGED <<files, isLoaded, exports, shown, reported, calls>>
       ELSE IF cfi # <<>> /\ ~HasCol(files, "cfi_code")
       THEN /\ Caught("FIRDS error")
            /\ files' = FirdsAfterIsin(files, isin)
            /\ isLoaded' = (isLoaded /\ isin = <<>>)
            /\ calls' = IF isin # <<>> THEN Append(calls, Stage("filter")) ELSE calls
            /\ UNCHANGED <<exports, shown, reported>>
       ELSE /\ files' = FirdsAfterCfi(FirdsAfterIsin(files, isin), cfi)
            /\ isLoaded' = (isLoaded /\ isin = <<>> /\ cfi = <<>>)
            /\ reported' = Append(reported, Len(files'.rows))
            /\ shown' = Append(shown, files')
            /\ exports' = Append(exports, Export("firds_filtered.csv", files'))
            /\ calls' = calls \o (IF isin # <<>> THEN <<Stage("filter")>> ELSE <<>>)
                              \o (IF cfi # <<>> THEN <<Stage("filter")>> ELSE <<>>)
                              \o <<Stage("export")>>
            /\ pc' = "firds_summary"
            /\ UNCHANGED messages
    /\ UNCHANGED <<dataset, loaded, loadedAtReturn, inputVars, mifidVars, summary, trend, freshness>>

\* The order of characters by code point, for sorting group keys.
Alphabet == <<" ", ".", "0", "1", "2", "3", "4", "5", "6", "7", "8", "9",
              "A", "E", "N", "O", "T", "U", "a", "e", "f", "n", "o", "t", "u">>
Ord(c) == CHOOSE i \in 1..Len(Alphabet) : Alphabet[i] = c

\* a < b for strings
RECURSIVE StrLess(_, _)
StrLess(a, b) ==
    IF b = <<>> THEN FALSE
    ELSE IF a = <<>> THEN TRUE
    ELSE IF Head(a) # Head(b) THEN Ord(Head(a)) < Ord(Head(b))
    ELSE StrLess(Tail(a), Tail(b))

\* The strings of S in ascending order.
RECURSIVE Sorted(_)
Sorted(S) ==
    IF S = {} THEN <<>>
    ELSE LET m == CHOOSE x \in S : \A y \in S : x = y \/ StrLess(x, y)
         IN <<m>> \o Sorted(S \ {m})

\* The group keys of groupby(key): the distinct values of the key column that
\* are not missing (dropna=True), sorted (sort=True).
GroupKeys(t, key) ==
    Sorted({t.rows[i][key].s : i \in {j \in 1..Len(t.rows) : ~IsNull(t.rows[j][key])}})

\* GroupBy "first" for one group and column: the first value of the column that
\* is not missing among the group's rows, in row order; NaN if there is none.
FirstOfGroup(t, key, k, col) ==
    LET idx == {i \in 1..Len(t.rows) :
                  /\ t.rows[i][key] = Str(k)
                  /\ ~IsNull(t.rows[i][col])}
    IN IF idx = {} THEN NaN
       ELSE t.rows[CHOOSE i \in idx : \A j \in idx : i <= j][col]

\* Lines 104-108: files.groupby("isin", as_index=False).agg({...: "first"})
GroupFirst(t, key, valueCols) ==
    LET keys == GroupKeys(t, key)
    IN [cols |-> <<key>> \o valueCols,
        rows |-> [g \in 1..Len(keys) |->
                    [c \in {key} \cup Range(valueCols) |->
                        IF c = key THEN Str(keys[g])
                        ELSE FirstOfGroup(t, key, keys[g], c)]]]

SummaryCols == <<"issuer_name", "maturity_date", "cfi_code">>

\* Lines 102-110.
FirdsSummary ==
    /\ pc = "firds_summary"
    /\ IF IsEmpty(files)
       THEN /\ pc' = "fresh_mifid"
            /\ UNCHANGED <<summary, shown, exports, calls, messages>>
       ELSE IF \E c \in {"isin"} \cup Range(SummaryCols) : ~HasCol(files, c)
       THEN /\ Caught("FIRDS error")
            /\ UNCHANGED <<summary, shown, exports, calls>>
       ELSE /\ summary' = GroupFirst(files, "isin", SummaryCols)
            /\ shown' = Append(shown, summary')
            /\ exports' = Append(exports, Export("firds_summary.csv", summary'))
            /\ calls' = calls \o <<Stage("aggregate"), Stage("export")>>
            /\ pc' = "fresh_mifid"
            /\ UNCHANGED messages
    /\ UNCHANGED <<dataset, tableVars, inputVars, mifidVars, trend, reported, freshness>>

\* -------------------------------------------------------------------- SSR

SsrLoad ==
    PanelLoad("ssr_load", "load_ssr_exempted_shares", SsrTables,
              "No SSR data.", "SSR error", "ssr_filter")

\* Lines 124-130: the issuer filter, the count, the grid, the CSV.
SsrFilter ==
    /\ pc = "ssr_filter"
    /\ \E typed \in TextInputs :
        /\ issuer' = Strip(typed)
        /\ IF issuer' # <<>> /\ ~HasCol(files, "issuer_name")
           THEN /\ Caught("SSR error")
                /\ UNCHANGED <<files, isLoaded, exports, shown, reported, calls>>
           ELSE /\ files' = IF issuer' # <<>>
                            THEN SubstrFilter(files, "issuer_name", issuer', FALSE)
                            ELSE files
                /\ isLoaded' = (isLoaded /\ issuer' = <<>>)
                /\ reported' = Append(reported, Len(files'.rows))
                /\ shown' = Append(shown, files')
                /\ exports' = Append(exports, Export("ssr_filtered.csv", files'))
                /\ calls' = calls \o (IF issuer' # <<>> THEN <<Stage("filter")>> ELSE <<>>)
                                  \o <<Stage("export")>>
                /\ pc' = "ssr_trend"
                /\ UNCHANGED messages
    /\ UNCHANGED <<dataset, loaded, loadedAtReturn, start_date, end_date, selected_files,
                   isin, cfi, search, mifidVars, summary, trend, freshness>>

\* The calendar month a timestamp lies in.
MonthOf(n) == n \div (UnitsPerDay * DaysPerMonth)

\* Line 134: dt.to_period("M").astype(str), element-wise.
MonthStr(c) == IF c.k = "ts" THEN Str(<<DigitChar(MonthOf(c.n))>>) ELSE AsStr(NaT)

\* Line 136: pd.to_datetime of a month string is the month's first instant.
MonthStart(m) ==
    IF Len(m) = 1 /\ IsDigit(m[1])
    THEN Ts(DigitVal(m[1]) * UnitsPerDay * DaysPerMonth) ELSE NaT

\* Lines 135-136: groupby("month").size().reset_index(name="count")
MonthlyTrend(t) ==
    LET months == Sorted({t.rows[i]["month"].s : i \in 1..Len(t.rows)})
    IN [g \in 1..Len(months) |->
          [month |-> MonthStart(months[g]),
           count |-> Cardinality({i \in 1..Len(t.rows) : t.rows[i]["month"].s = months[g]})]]

\* Lines 133-134: two assignments into df.
WithMonth(t) ==
    LET dated == SetColumn(t, "publication_date", safe_datetime(Column(t, "publication_date")))
    IN SetColumn(dated, "month", [i \in 1..Len(dated.rows) |->
                                    MonthStr(dated.rows[i]["publication_date"])])

\* Lines 132-142.  df is the frame the loader returned unless the issuer filter
\* rebound it to a new one.
SsrTrend ==
    /\ pc = "ssr_trend"
    /\ IF HasCol(files, "publication_date")
       THEN /\ files' = WithMonth(files)
            /\ loaded' = IF isLoaded THEN files' ELSE loaded
            /\ trend' = MonthlyTrend(files')
            /\ calls' = Append(calls, Stage("aggregate"))
       ELSE UNCHANGED <<files, loaded, trend, calls>>
    /\ pc' = "fresh_mifid"
    /\ UNCHANGED <<dataset, loadedAtReturn, isLoaded, inputVars, mifidVars, summary, outVars, freshness>>

\* ------------------------------------------------------------- freshness

\* safe_datetime(t["publication_date"]).max(): the latest timestamp, NaT if
\* there is none.
Latest(t) ==
    LET ts == {c \in Range(safe_datetime(Column(t, "publication_date"))) : c.k = "ts"}
    IN IF ts = {} THEN NaT ELSE CHOOSE c \in ts : \A d \in ts : d.n <= c.n

\* What one block of the overview can write after its loader call: nothing
\* when the call threw or a statement of the block raised ("except: pass"),
\* else one line with the latest date.  Formatting a NaT latest date is left
\* to the library: it writes, or raises.
MifidFreshWrites(o) ==
    IF ~o.ok \/ ~HasCol(o.table, "publication_date") THEN {<<>>}
    ELSE IF Latest(o.table) = NaT THEN {<<>>, <<"Latest MiFID publication">>}
    ELSE {<<"Latest MiFID publication">>}
\* The FIRDS block writes nothing either when the table has no publication_date.
FirdsFreshWrites(o) ==
    IF ~o.ok \/ ~HasCol(o.table, "publication_date") THEN {<<>>}
    ELSE IF Latest(o.table) = NaT THEN {<<>>, <<"Latest FIRDS publication">>}
    ELSE {<<"Latest FIRDS publication">>}

Ended(o) == IF o.ok THEN "returned" ELSE "threw"

\* The ways a block can go: how its loader call ended, and what it wrote.
MifidFreshRuns ==
    UNION {{<<Ended(o), w>> : w \in MifidFreshWrites(o)} : o \in Outcomes(MifidTables)}
FirdsFreshRuns ==
    UNION {{<<Ended(o), w>> : w \in FirdsFreshWrites(o)} : o \in Outcomes(FirdsTables)}

\* Lines 149-153.
FreshMifid ==
    /\ pc = "fresh_mifid"
    /\ \E run \in MifidFreshRuns :
        /\ calls' = Append(calls, Call("load_mifid_file_list", run[1]))
        /\ freshness' = freshness \o run[2]
    /\ pc' = "fresh_firds"
    /\ UNCHANGED <<dataset, tableVars, inputVars, mifidVars, summary, trend, outVars>>

\* Lines 155-160.
FreshFirds ==
    /\ pc = "fresh_firds"
    /\ \E run \in FirdsFreshRuns :
        /\ calls' = Append(calls, Call("load_latest_files", run[1]))
        /\ freshness' = freshness \o run[2]
    /\ pc' = "done"
    /\ UNCHANGED <<dataset, tableVars, inputVars, mifidVars, summary, trend, outVars>>

\* Streamlit runs the script again, from the top, on the next interaction.
Rerun ==
    /\ pc \in {"done", "crashed"}
    /\ pc' = "construct"
    /\ dataset' = "none"
    /\ loaded' = EmptyFrame /\ loadedAtReturn' = EmptyFrame /\ files' = EmptyFrame
    /\ isLoaded' = FALSE
    /\ start_date' = NaT /\ end_date' = NaT
    /\ filtered' = EmptyFrame /\ selected_files' = <<>> /\ rest' = <<>>
    /\ df' = EmptyFrame /\ dfAtReturn' = EmptyFrame /\ combined' = EmptyFrame
    /\ isin' = <<>> /\ cfi' = <<>> /\ issuer' = <<>> /\ search' = <<>>
    /\ summary' = EmptyFrame /\ trend' = <<>>
    /\ messages' = <<>> /\ exports' = <<>> /\ shown' = <<>> /\ reported' = <<>>
    /\ calls' = <<>> /\ freshness' = <<>>

Next ==
    \/ Construct \/ SelectDataset
    \/ MifidLoad \/ MifidNormalise \/ MifidDateInput \/ MifidDateInputFails \/ MifidFilter
    \/ MifidSelect \/ MifidLoopNoUrl \/ MifidLoopDownload \/ MifidLoopDownloadThrows
    \/ MifidCombined
    \/ FirdsLoad \/ FirdsInputs \/ FirdsFilter \/ FirdsSummary
    \/ SsrLoad \/ SsrFilter \/ SsrTrend
    \/ FreshMifid \/ FreshFirds \/ Rerun

Spec == Init /\ [][Next]_vars

\* -------------------------------------------- the date filter on its own

\* The timestamps of the days the date picker offers.
MaxTime == (MaxDay + 1) * UnitsPerDay - 1

\* File metadata whose publication dates are missing, unparseable, or any
\* timestamp of the days the date picker offers.
DateTables ==
    Frames(<<"file_name", "publication_date">>,
           [file_name : {F1},
            publication_date : {NaN, Bad} \cup {Str(FormatTs(n)) : n \in 0..MaxTime}], MaxRows)

\* The MiFID panel right after load_mifid_file_list() returned such a table.
InitDate ==
    /\ pc = "mifid_norm"
    /\ files \in {t \in DateTables : ~IsEmpty(t)}
    /\ loaded = files /\ loadedAtReturn = files
    /\ dataset = "MiFID" /\ isLoaded = TRUE
    /\ start_date = NaT /\ end_date = NaT
    /\ filtered = EmptyFrame /\ selected_files = <<>> /\ rest = <<>>
    /\ df = EmptyFrame /\ dfAtReturn = EmptyFrame /\ combined = EmptyFrame
    /\ isin = <<>> /\ cfi = <<>> /\ issuer = <<>> /\ search = <<>>
    /\ summary = EmptyFrame /\ trend = <<>>
    /\ messages = <<>> /\ exports = <<>> /\ shown = <<>> /\ reported = <<>>
    /\ calls = <<Call("load_mifid_file_list", "rows")>> /\ freshness = <<>>

NextDate == MifidNormalise \/ MifidDateInput \/ MifidDateInputFails \/ MifidFilter

SpecDate == InitDate /\ [][NextDate]_vars

\* ------------------------------------------------------------------ claims

\* A cell holds text that contains the needle, letter case ignored.
ContainsNoCase(c, needle) == c.k = "str" /\ IsSubstring(Lower(needle), Lower(c.s))

\* The rows of t whose cell in col is text containing the needle, case ignored.
RowsContaining(t, col, needle) ==
    BoolIndex(t, [i \in 1..Len(t.rows) |-> ContainsNoCase(t.rows[i][col], needle)])

\* The rows of t whose cell in col is text.
TextRows(t, col) == BoolIndex(t, [i \in 1..Len(t.rows) |-> t.rows[i][col].k = "str"])

\* C1: a substring filter (FIRDS ISIN, SSR issuer) keeps exactly the rows whose
\* cell contains the needle as a substring, letter case ignored.  Stated for
\* the rows whose cell is text, with the needle as the filter receives it: at
\* the FIRDS panel when only the ISIN filter is active, and at the SSR panel.
C1_SubstringFilterExact ==
    /\ (dataset = "FIRDS" /\ pc = "firds_summary" /\ isin # <<>> /\ cfi = <<>>)
          => TextRows(files, "isin").rows = RowsContaining(loaded, "isin", isin).rows
    /\ (dataset = "SSR" /\ pc = "ssr_trend" /\ issuer # <<>>)
          => TextRows(files, "issuer_name").rows
               = RowsContaining(loaded, "issuer_name", issuer).rows

\* C2: a row whose cell in the searched column is missing is never part of the
\* result of a substring filter (FIRDS ISIN and CFI, SSR issuer); the MiFID
\* search looks into every column, and a row all of whose cells are missing is
\* never part of its result.
C2_NullNeverMatches ==
    /\ (dataset = "FIRDS" /\ pc = "firds_summary" /\ isin # <<>>)
          => \A i \in 1..Len(files.rows) : ~IsNull(files.rows[i]["isin"])
    /\ (dataset = "FIRDS" /\ pc = "firds_summary" /\ cfi # <<>>)
          => \A i \in 1..Len(files.rows) : ~IsNull(files.rows[i]["cfi_code"])
    /\ (dataset = "SSR" /\ pc = "ssr_trend" /\ issuer # <<>>)
          => \A i \in 1..Len(files.rows) : ~IsNull(files.rows[i]["issuer_name"])
    /\ (dataset = "MiFID" /\ search # <<>>)
          => \A i \in 1..Len(combined.rows) : \E c \in DOMAIN combined.rows[i] :
                ~IsNull(combined.rows[i][c])

\* The rows of t dated d.
Dated(t, d) == Cardinality({i \in 1..Len(t.rows) : t.rows[i]["publication_date"] = d})

KeyCells(t, col) == {IF IsNull(t.rows[i][col]) THEN NaN ELSE t.rows[i][col] : i \in 1..Len(t.rows)}

\* The first row of t whose key is k (any missing value for k = NaN).
FirstRowOfKey(t, col, k) ==
    LET idx == {i \in 1..Len(t.rows) :
                  IF k = NaN THEN IsNull(t.rows[i][col]) ELSE t.rows[i][col] = k}
    IN t.rows[CHOOSE i \in idx : \A j \in idx : i <= j]

\* The Instrument Summary has been computed in this run.
SummaryMade == dataset = "FIRDS" /\ Len(exports) = 2

\* C4: the summary has one row per distinct isin of the filtered table, a
\* missing isin included, and the row of a key takes issuer_name,
\* maturity_date and cfi_code from the first row of that key, missing values
\* included.
C4_FirstRowPerKey ==
    SummaryMade =>
        /\ Len(summary.rows) = Cardinality(KeyCells(files, "isin"))
        /\ \A k \in KeyCells(files, "isin") :
              \E g \in 1..Len(summary.rows) :
                 /\ k # NaN => summary.rows[g]["isin"] = k
                 /\ \A c \in Range(SummaryCols) :
                       summary.rows[g][c] = FirstRowOfKey(files, "isin", k)[c]

LoaderOps == {"load_mifid_file_list", "load_latest_files", "load_ssr_exempted_shares"}
PipelineOps == {"filter", "aggregate", "export"}

NoDataText ==
    CASE dataset = "MiFID" -> "No MiFID metadata found."
      [] dataset = "FIRDS" -> "No FIRDS metadata available."
      [] OTHER -> "No SSR data."
ErrorText ==
    CASE dataset = "MiFID" -> "MiFID error"
      [] dataset = "FIRDS" -> "FIRDS error"
      [] OTHER -> "SSR error"

\* No filter, aggregate, export or download has run, and nothing was shown.
NoLaterStage ==
    /\ \A i \in 1..Len(calls) : calls[i].op \notin PipelineOps \cup {"download_file"}
    /\ exports = <<>> /\ shown = <<>> /\ reported = <<>>

\* C5: when the panel's loader call returned an empty table the run shows the
\* panel's "no data" warning and no error; when it threw the run shows the
\* panel's error and no warning; in both cases no later stage runs.
C5_EmptyAndThrownDistinct ==
    /\ (calls # <<>> /\ calls[1].result = "empty")
          => messages = <<Warning(NoDataText)>> /\ NoLaterStage
    /\ (calls # <<>> /\ calls[1].result = "threw")
          => messages = <<Error(ErrorText)>> /\ NoLaterStage

\* A finished FIRDS run whose loader call returned an empty table.
C5_Witness ==
    pc = "done" /\ dataset = "FIRDS" /\ calls[1].result = "empty"
    /\ messages = <<Warning("No FIRDS metadata available.")>>

\* C6: in a finished run every call of the data client that threw was turned
\* into a message the user sees: there are at least as many error messages as
\* calls that threw.
C6_EveryFailureReported ==
    pc = "done" =>
        Cardinality({i \in 1..Len(calls) : calls[i].result = "threw"})
            <= Cardinality({j \in 1..Len(messages) : messages[j].level = "error"})

\* csv is the header of t followed by one line per row of t, in row order,
\* each line the fields of the row in column order.
CsvOf(csv, t) ==
    /\ Len(csv) = Len(t.rows) + 1
    /\ csv[1] = t.cols
    /\ \A i \in 1..Len(t.rows) :
          csv[i + 1] = [j \in 1..Len(t.cols) |-> CsvCell(t.rows[i][t.cols[j]])]

\* C7: every CSV offered in a run is made of the table the run shows at that
\* point: the loader's table after the filters of this run (FIRDS, SSR), whose
\* row count is the one reported, the summary of that table, or the combined
\* table after the search.
C7_ExportIsCurrentTable ==
    /\ Len(exports) <= 2
    /\ (dataset = "FIRDS" /\ Len(exports) >= 1) =>
          /\ exports[1].file = "firds_filtered.csv"
          /\ CsvOf(exports[1].csv, files)
          /\ files = FirdsAfterCfi(FirdsAfterIsin(loadedAtReturn, isin), cfi)
          /\ shown[1] = files /\ reported[1] = Len(files.rows)
    /\ (dataset = "FIRDS" /\ Len(exports) = 2) =>
          /\ exports[2].file = "firds_summary.csv"
          /\ CsvOf(exports[2].csv, summary)
          /\ shown[2] = summary
    /\ (dataset = "SSR" /\ Len(exports) >= 1) =>
          /\ exports[1].file = "ssr_filtered.csv"
          /\ CsvOf(exports[1].csv, shown[1])
          /\ shown[1] = IF issuer # <<>>
                        THEN SubstrFilter(loadedAtReturn, "issuer_name", issuer, FALSE)
                        ELSE loadedAtReturn
          /\ reported[1] = Len(shown[1].rows)
    /\ (dataset = "MiFID" /\ Len(exports) >= 1) =>
          /\ exports[1].file = "mifid_combined.csv"
          /\ CsvOf(exports[1].csv, combined)
          /\ shown[2] = combined
    /\ (dataset = "SSR" \/ dataset = "MiFID") => Len(exports) <= 1

\* A FIRDS run whose ISIN filter dropped some rows and kept some, and which
\* offered both CSVs.
C7_Witness ==
    /\ dataset = "FIRDS" /\ Len(exports) = 2 /\ isin # <<>>
    /\ Len(files.rows) >= 1 /\ Len(files.rows) < Len(loadedAtReturn.rows)

ParsedDates(t) ==
    SetColumn(t, "publication_date",
              [i \in 1..Len(t.rows) |-> ToDatetime(t.rows[i]["publication_date"])])

\* t with its publication_date cells parsed and the month column added.
ParsedWithMonth(t) ==
    SetColumn(ParsedDates(t), "month",
              [i \in 1..Len(t.rows) |-> MonthStr(ToDatetime(t.rows[i]["publication_date"]))])

\* The downloads that returned, in order.
Returned == SelectSeq(calls, LAMBDA c : c.op = "download_file" /\ c.result = "returned")

C9_AtMostOneLoaderCall ==
    /\ Cardinality({i \in 1..Len(calls) : calls[i].op \in LoaderOps}) <= 1
    /\ \A i, j \in 1..Len(calls) :
          (i < j /\ calls[i].op \in PipelineOps)
              => calls[j].op \notin LoaderOps \cup {"download_file"}

PanelLoader ==
    CASE dataset = "MiFID" -> "load_mifid_file_list"
      [] dataset = "FIRDS" -> "load_latest_files"
      [] OTHER -> "load_ssr_exempted_shares"

\* The calls the Data Freshness Overview has made so far in this run.
FreshCalls == CASE pc = "fresh_firds" -> 1 [] pc = "done" -> 2 [] OTHER -> 0

\* C9 amended: the panel makes exactly one loader call, and it comes before
\* every filter, aggregate, export and download of the run; download_file is
\* called only in the MiFID panel, after the date filter, at most once per
\* selected file; the Data Freshness Overview then calls load_mifid_file_list
\* and load_latest_files, so that a finished run has made three loader calls.
C9_CallOrder ==
    LET n == Len(calls)
    IN /\ n >= 1 => calls[1].op = PanelLoader
       /\ \A i \in 2..(n - FreshCalls) : calls[i].op \notin LoaderOps
       /\ FreshCalls >= 1 => calls[n - FreshCalls + 1].op = "load_mifid_file_list"
       /\ FreshCalls = 2 => calls[n].op = "load_latest_files"
       /\ pc = "done" => Cardinality({i \in 1..n : calls[i].op \in LoaderOps}) = 3
       /\ \A i \in 1..n : calls[i].op = "download_file" =>
             /\ dataset = "MiFID"
             /\ \E j \in 1..(i - 1) : calls[j].op = "filter"
             /\ \A j \in 1..n : (j # i /\ calls[j].op = "download_file")
                                    => calls[j].file # calls[i].file
             /\ calls[i].file \in Range(selected_files)

\* A finished MiFID run that downloaded two files.
C9_Witness ==
    /\ pc = "done" /\ dataset = "MiFID"
    /\ Cardinality({i \in 1..Len(calls) : calls[i].op = "download_file"}) = 2

\* A file has a download URL: download_link or downloadUrl holds non-empty text.
IsUrl(c) == c.k = "str" /\ c.s # <<>>
HasUrl(fname) ==
    LET row == FirstRowNamed(filtered, fname)
    IN IsUrl(Get(row, "download_link")) \/ IsUrl(Get(row, "downloadUrl"))

\* The files a message warned about, in order.
WarnedAbout ==
    LET w == SelectSeq(messages, LAMBDA m : m.level = "warning" /\ m.about # None)
    IN [i \in 1..Len(w) |-> w[i].about]

\* The source_file tags a combined table must carry: each downloaded file's
\* name, once per row of the file, in download order.
RECURSIVE Tags(_)
Tags(dl) ==
    IF dl = <<>> THEN <<>>
    ELSE [i \in 1..Head(dl).rows |-> Head(dl).file] \o Tags(Tail(dl))

\* C10: no download is attempted for a file without a URL, and when the
\* download loop has gone through the selection, the selected files that have
\* a URL were downloaded once each, in selection order, the
\* others were warned about and not downloaded, and the combined table holds
\* the rows of the downloaded files, each tagged with its file's name.
C10_LoopDownloadsSelection ==
    /\ \A i \in 1..Len(calls) : calls[i].op = "download_file" => HasUrl(calls[i].file)
    /\ (pc = "mifid_loop" /\ rest = <<>>) =>
        LET dl == SelectSeq(calls, LAMBDA c : c.op = "download_file")
        IN /\ [i \in 1..Len(dl) |-> dl[i].file] = SelectSeq(selected_files, HasUrl)
           /\ WarnedAbout = SelectSeq(selected_files, LAMBDA f : ~HasUrl(f))
           /\ Len(combined.rows) = Len(Tags(dl))
           /\ \A i \in 1..Len(combined.rows) : combined.rows[i]["source_file"] = Tags(dl)[i]

====
